---- MODULE Spec2Model ----
(***************************************************************************)
(* WindowsManager (src/index.ts): browsing contexts of one origin that     *)
(* share a registry {activeWindow, windows, meta} through localStorage,    *)
(* exchange messages over a BroadcastChannel and track their own geometry. *)
(*                                                                         *)
(* Every context runs a single-threaded event loop, so each handler of the *)
(* class is one atomic action.  A handler is written as a function on a    *)
(* frame: the fields of the manager instance together with the storage     *)
(* areas it touches, the listener invocations it made and the exception    *)
(* that left it, if any.                                                   *)
(***************************************************************************)
EXTENDS Integers, Sequences, FiniteSets, TLC

(***************************************************************************)
(* Bounds of the model.                                                    *)
(***************************************************************************)
MaxCoord == 1      \* screen coordinates and scroll offsets range over 0..MaxCoord
MaxIds == 3        \* window ids generateWindowId hands out in one behaviour
MaxPending == 2    \* storage notifications queued for one context
MaxInbox == 2      \* channel messages queued for one context
MaxListeners == 2  \* length of one listener array
MaxSends == 3      \* numbered messages one context sends in one behaviour

Ctx == {"w1", "w2"}
Coords == 0..MaxCoord
Ids == 1..MaxIds

(***************************************************************************)
(* WindowType (src/index.ts:24-33).  `screen` is the host's Screen object  *)
(* in a record built by getWindowRect and the plain object "{}" in a record*)
(* that went through JSON.  NoWindow stands for null.                      *)
(***************************************************************************)
RectFields == {"screenX", "screenY", "screenTop", "screenLeft", "scrollX", "scrollY"}

Rect0 ==
    [screenX |-> 0, screenY |-> 0, screenTop |-> 0, screenLeft |-> 0,
     scrollX |-> 0, scrollY |-> 0, screen |-> "Screen"]

NoRect == [Rect0 EXCEPT !.screen = "null"]

MkWindow(id, rect) ==
    [id |-> id,
     screenX |-> rect.screenX, screenY |-> rect.screenY,
     screenTop |-> rect.screenTop, screenLeft |-> rect.screenLeft,
     scrollX |-> rect.scrollX, scrollY |-> rect.scrollY,
     screen |-> rect.screen]

NoWindow == MkWindow(0, NoRect)

RectOf(w) ==
    [screenX |-> w.screenX, screenY |-> w.screenY,
     screenTop |-> w.screenTop, screenLeft |-> w.screenLeft,
     scrollX |-> w.scrollX, scrollY |-> w.scrollY,
     screen |-> w.screen]

\* { ...a, ...rect }: the fields of rect replace those of a, the id stays.
Spread(a, rect) == MkWindow(a.id, rect)

(***************************************************************************)
(* Meta values.  A meta object is the sequence of its keys in insertion    *)
(* order (JSON.stringify writes keys in that order); Undefined is the      *)
(* value of a missing initialMeta.                                         *)
(***************************************************************************)
Undefined == [defined |-> FALSE, keys |-> <<>>]
Obj(ks) == [defined |-> TRUE, keys |-> ks]
MetaArgs == {Obj(<<"a">>), Obj(<<"a", "b">>), Obj(<<"b", "a">>)}
InitialMetas == {Undefined, Obj(<<"a">>)}

\* Deep structural equality of two meta values: the same keys, in any order.
DeepEqual(m1, m2) ==
    /\ m1.defined = m2.defined
    /\ {m1.keys[i] : i \in DOMAIN m1.keys} = {m2.keys[i] : i \in DOMAIN m2.keys}

(***************************************************************************)
(* JSON.  A stored string is modelled by the value JSON.parse gives back   *)
(* for it: two strings are equal exactly when these values are.            *)
(***************************************************************************)
StringifyWindow(w) == IF w = NoWindow THEN NoWindow ELSE [w EXCEPT !.screen = "{}"]

StringifyWindows(ws) == [i \in DOMAIN ws |-> StringifyWindow(ws[i])]

\* A meta object comes back from JSON with its keys in the order they were
\* written.  JSON.stringify drops the `meta` key of the registry when the value
\* is undefined, and reading the missing key of the parsed registry gives
\* undefined again, so Undefined is stored as itself.
StringifyMeta(m) == IF m.defined THEN Obj(m.keys) ELSE Undefined

NoItem == [kind |-> "absent", activeWindow |-> NoWindow, windows |-> <<>>, meta |-> Undefined]

\* An item under the registry key that is not JSON text.
Garbage == [kind |-> "garbage", activeWindow |-> NoWindow, windows |-> <<>>, meta |-> Undefined]

StringifyState(aw, ws, m) ==
    [kind |-> "json", activeWindow |-> StringifyWindow(aw),
     windows |-> StringifyWindows(ws), meta |-> StringifyMeta(m)]

(***************************************************************************)
(* Listener categories and the log of a handler.  One entry of the log is  *)
(* one call of one listener, with the argument it got in the field of its  *)
(* category, or one write of the registry item (cat "setItem" with the     *)
(* item written, or "removeItem").                                         *)
(***************************************************************************)
Categories == {"state", "message", "newWindow", "removeWindow", "windowUpdate",
               "activeWindowChange", "meta"}

NoListeners == [cat \in Categories |-> <<>>]

NoState == [activeWindow |-> NoWindow, windows |-> <<>>, thisWindow |-> NoWindow,
            meta |-> Undefined]

NoMessage == [from |-> 0, message |-> 0]

Call(cat, l, w, m, st, msg) ==
    [cat |-> cat, listener |-> l, window |-> w, meta |-> m, state |-> st, msg |-> msg,
     item |-> NoItem]

Write(cat, item) ==
    [cat |-> cat, listener |-> "", window |-> NoWindow, meta |-> Undefined,
     state |-> NoState, msg |-> NoMessage, item |-> item]

(***************************************************************************)
(* The manager instance of one context.  activeIsThis tells whether        *)
(* this.activeWindow is the very object this.thisWindow (setActiveWindow   *)
(* compares references); movePollInterval is the timer handle, 0 for       *)
(* undefined, and timerArmed whether the host still runs that timer.       *)
(***************************************************************************)
NoMgr ==
    [thisWindow |-> NoWindow, activeWindow |-> NoWindow, activeIsThis |-> FALSE,
     windows |-> <<>>, meta |-> Undefined, initialized |-> FALSE,
     lastWindowRect |-> NoRect, movePollInterval |-> 0, timerArmed |-> FALSE,
     listeners |-> NoListeners]

VARIABLES
    phase,      \* per context: "none" (no page), "live", "unloaded" (handleBeforeUnload ran)
    win,        \* per context: the geometry the host reports (window.screenX, ...)
    session,    \* per context: sessionStorage["windows"], NoWindow when missing
    mgr,        \* per context: the fields of the WindowsManager instance
    store,      \* localStorage["windows"]
    pending,    \* per context: storage events queued for it
    inbox,      \* per context: channel messages queued for it
    nextId,     \* the next id generateWindowId returns
    last,       \* the handler that ran last, with the calls and writes it made
    hist,       \* what later states need to know of earlier handlers
    recording   \* whether `last` is kept (it is no part of the program)

vars == <<phase, win, session, mgr, store, pending, inbox, nextId, last, hist, recording>>

(***************************************************************************)
(* Frames.  The frame of a handler running in a context: the instance's    *)
(* fields, the two storage items, the geometry the host reports, and what  *)
(* the handler did so far: `events` counts the storage events its writes   *)
(* raised in the other contexts, `posted` are the envelopes it gave to the *)
(* channel, `log` the listener calls, `thrown` a listener's exception.     *)
(***************************************************************************)
MgrFields == DOMAIN NoMgr

Frame(m, st, ss, w, id) ==
    m @@ [store |-> st, session |-> ss, window |-> w, freshId |-> id,
          events |-> 0, posted |-> <<>>, log |-> <<>>, thrown |-> FALSE]

MgrOf(s) == [f \in MgrFields |-> s[f]]

\* getCurrentState (src/index.ts:297-304)
getCurrentState(s) ==
    [activeWindow |-> s.activeWindow, windows |-> s.windows,
     thisWindow |-> s.thisWindow, meta |-> s.meta]

\* getWindowRect (src/index.ts:360-379)
getWindowRect(s) == s.window

(***************************************************************************)
(* Listener registration (src/index.ts:147-289): push on add, filter on    *)
(* remove, the same for each of the seven arrays.                          *)
(***************************************************************************)
Filter(list, l) == SelectSeq(list, LAMBDA x : x # l)

addListener(s, cat, l) == [s EXCEPT !.listeners[cat] = Append(@, l)]

\* remove<cat>Listener with the test of the filter turned round.
removeListener_KeepsOnlyIt(s, cat, l) ==
    [s EXCEPT !.listeners[cat] = SelectSeq(@, LAMBDA x : x = l)]

removeListener(s, cat, l) == [s EXCEPT !.listeners[cat] = Filter(@, l)]

(***************************************************************************)
(* What a listener does when it is called.  Most listeners leave the       *)
(* manager alone; two kinds call back into it, for the category they are   *)
(* called in: "swap" subscribes the listener "late" and unsubscribes       *)
(* itself, "once" unsubscribes itself.                                     *)
(***************************************************************************)
Subscribing == {"swap"}
Unsubscribing == {"swap", "once"}

\* The listener "throws" raises an exception when it is called.
Throwing == {"throws"}

\* The call listener(...) of the loops is not guarded: the exception of the
\* listener leaves the loop and the handler.
Raise(s, l) == IF l \in Throwing THEN [s EXCEPT !.thrown = TRUE] ELSE s

(***************************************************************************)
(* for (const listener of this.<cat>Listeners) listener(...): the loop     *)
(* walks the array object it started with, arr, up to the length that      *)
(* array has when the loop gets there.  A push by a callback lengthens     *)
(* that array as long as this.<cat>Listeners is still that object (same);  *)
(* a remove assigns a filtered copy to the field and leaves arr alone.     *)
(***************************************************************************)
\* The call of listener l: the log gets it, and l may throw.
Called(s, cat, l, w, m, msg) ==
    Raise([s EXCEPT !.log = Append(@,
              Call(cat, l, w, m,
                   IF cat = "state" THEN getCurrentState(s) ELSE NoState, msg))], l)

\* What l does to the listeners of its category while it is called.
Reentered(s, cat, l) ==
    IF l \in Subscribing /\ l \in Unsubscribing
    THEN removeListener(addListener(s, cat, "late"), cat, l)
    ELSE IF l \in Subscribing THEN addListener(s, cat, "late")
    ELSE IF l \in Unsubscribing THEN removeListener(s, cat, l)
    ELSE s

\* The array the loop goes on with after the call of l: the lengthened one
\* when l pushed onto the array the loop holds.
Ahead(arr, l, same) ==
    IF l \in Subscribing /\ same THEN Append(arr, "late") ELSE arr

RECURSIVE Pass(_, _, _, _, _, _, _, _)
Pass(s, cat, arr, same, i, w, m, msg) ==
    IF i > Len(arr) \/ s.thrown THEN s
    ELSE Pass(Reentered(Called(s, cat, arr[i], w, m, msg), cat, arr[i]),
              cat, Ahead(arr, arr[i], same), same /\ arr[i] \notin Unsubscribing,
              i + 1, w, m, msg)

Dispatch(s, cat, w, m, msg) ==
    IF s.thrown THEN s
    ELSE Pass(s, cat, s.listeners[cat], TRUE, 1, w, m, msg)

\* emitStateChange (src/index.ts:485-489)
emitStateChange(s) == Dispatch(s, "state", NoWindow, Undefined, NoMessage)

(***************************************************************************)
(* localStorage.  setItem and removeItem raise a storage event in every    *)
(* other document of the origin, and only when they change the item.       *)
(***************************************************************************)
\* updateStorageData that keeps the stored windows the mirror does not hold.
updateStorageData_Merges(s) ==
    IF s.thrown THEN s
    ELSE LET item == StringifyState(s.activeWindow,
                        s.windows \o SelectSeq(s.store.windows,
                                               LAMBDA w : \A i \in DOMAIN s.windows :
                                                              s.windows[i].id # w.id),
                        s.meta)
         IN  [s EXCEPT !.store = item,
                       !.events = IF item = s.store THEN @ ELSE @ + 1,
                       !.log = Append(@, Write("setItem", item))]

\* updateStorageData (src/index.ts:587-594)
updateStorageData(s) ==
    IF s.thrown THEN s
    ELSE LET item == StringifyState(s.activeWindow, s.windows, s.meta)
         IN  [s EXCEPT !.store = item,
                       !.events = IF item = s.store THEN @ ELSE @ + 1,
                       !.log = Append(@, Write("setItem", item))]

\* localStorage.removeItem(this.key) (src/index.ts:557)
removeItem(s) ==
    IF s.thrown THEN s
    ELSE [s EXCEPT !.store = NoItem,
                   !.events = IF s.store = NoItem THEN @ ELSE @ + 1,
                   !.log = Append(@, Write("removeItem", NoItem))]

\* getStorageData (src/index.ts:601-610): the parsed item, or the default
\* built around the instance's current meta when getItem returns null.
\* JSON.parse is not guarded: for an item that is not JSON text it raises a
\* SyntaxError (error) and there is no value.
getStorageData(s) ==
    IF s.store.kind = "json"
    THEN [activeWindow |-> s.store.activeWindow, windows |-> s.store.windows,
          meta |-> s.store.meta, error |-> FALSE]
    ELSE [activeWindow |-> NoWindow, windows |-> <<>>, meta |-> s.meta,
          error |-> s.store.kind # "absent"]

(***************************************************************************)
(* The windows list.                                                       *)
(***************************************************************************)
HasId(ws, id) == \E i \in DOMAIN ws : ws[i].id = id

\* findIndex: the first index holding the id, 0 for -1.
FindIndex(ws, id) ==
    IF HasId(ws, id)
    THEN CHOOSE i \in DOMAIN ws : ws[i].id = id /\ \A j \in 1..(i - 1) : ws[j].id # id
    ELSE 0

\* splice(idx, 1)
RemoveAt(ws, idx) == [i \in 1..(Len(ws) - 1) |-> IF i < idx THEN ws[i] ELSE ws[i + 1]]

\* updateThisWindowInList (src/index.ts:428-436)
updateThisWindowInList(s) ==
    LET idx == FindIndex(s.windows, s.thisWindow.id)
    IN  IF s.thrown \/ idx = 0 THEN s
        ELSE Dispatch([s EXCEPT !.windows[idx] = s.thisWindow],
                      "windowUpdate", s.thisWindow, Undefined, NoMessage)

\* A variant that pushes the record and does not persist the list.
ensureThisWindowInList_NoWrite(s) ==
    IF s.thrown \/ HasId(s.windows, s.thisWindow.id) THEN s
    ELSE Dispatch([s EXCEPT !.windows = Append(@, s.thisWindow)],
                  "newWindow", s.thisWindow, Undefined, NoMessage)

\* A variant that pushes without looking for the id first.
ensureThisWindowInList_NoLookup(s) ==
    IF s.thrown THEN s
    ELSE Dispatch(updateStorageData([s EXCEPT !.windows = Append(@, s.thisWindow)]),
                  "newWindow", s.thisWindow, Undefined, NoMessage)

\* ensureThisWindowInList (src/index.ts:442-450)
ensureThisWindowInList(s) ==
    IF s.thrown \/ HasId(s.windows, s.thisWindow.id) THEN s
    ELSE Dispatch(updateStorageData([s EXCEPT !.windows = Append(@, s.thisWindow)]),
                  "newWindow", s.thisWindow, Undefined, NoMessage)

\* removeThisWindow (src/index.ts:456-465)
\* removeThisWindow without the test of the index: splice(-1, 1) takes the
\* last record out.
removeThisWindow_NoCheck(s) ==
    LET idx == FindIndex(s.windows, s.thisWindow.id)
        at == IF idx = 0 THEN Len(s.windows) ELSE idx
    IN  IF s.thrown \/ at = 0 THEN s
        ELSE Dispatch([s EXCEPT !.windows = RemoveAt(@, at)],
                      "removeWindow", s.windows[at], Undefined, NoMessage)

\* removeThisWindow (src/index.ts:456-465)
removeThisWindow(s) ==
    LET idx == FindIndex(s.windows, s.thisWindow.id)
    IN  IF s.thrown \/ idx = 0 THEN s
        ELSE Dispatch([s EXCEPT !.windows = RemoveAt(@, idx)],
                      "removeWindow", s.windows[idx], Undefined, NoMessage)

(***************************************************************************)
(* setActiveWindow (src/index.ts:471-479).  `this.activeWindow !== window` *)
(* compares references: ref says which object `window` is, "this" for      *)
(* this.thisWindow, "null" for null, "fresh" for an object JSON.parse just *)
(* made (equal to no object the instance holds).                           *)
(***************************************************************************)
DiffersByReference(s, ref) ==
    CASE ref = "this" -> ~s.activeIsThis
      [] ref = "null" -> s.activeWindow # NoWindow
      [] OTHER -> TRUE

setActiveWindow(s, w, ref) ==
    IF s.thrown \/ ~DiffersByReference(s, ref) THEN s
    ELSE emitStateChange(
            Dispatch([s EXCEPT !.activeWindow = w, !.activeIsThis = (ref = "this")],
                     "activeWindowChange", w, Undefined, NoMessage))

(***************************************************************************)
(* Construction.                                                           *)
(***************************************************************************)
\* initCurrentWindow that does not look for the record of the session.
initCurrentWindow_AlwaysNew(s) ==
    LET newWindow == MkWindow(s.freshId, getWindowRect(s))
    IN  [s EXCEPT !.thisWindow = newWindow,
                  !.session = StringifyWindow(newWindow)]

\* initCurrentWindow (src/index.ts:617-624)
initCurrentWindow(s) ==
    IF s.session # NoWindow
    THEN [s EXCEPT !.thisWindow = s.session]
    ELSE LET newWindow == MkWindow(s.freshId, getWindowRect(s))
         IN  [s EXCEPT !.thisWindow = newWindow,
                       !.session = StringifyWindow(newWindow)]

\* this.meta = data.meta (src/index.ts:580)
assignMeta(s, meta) == IF s.thrown THEN s ELSE [s EXCEPT !.meta = meta]

\* loadStateFromStorage (src/index.ts:576-581)
loadStateFromStorage(s) ==
    LET data == getStorageData(s)
    IN  IF data.error THEN [s EXCEPT !.thrown = TRUE]
        ELSE assignMeta(setActiveWindow([s EXCEPT !.windows = data.windows],
                                        s.thisWindow, "this"),
                        data.meta)

\* this.initialized = true; this.emitStateChange() (src/index.ts:340-341)
markInitialized(s) ==
    IF s.thrown THEN s ELSE emitStateChange([s EXCEPT !.initialized = TRUE])

\* initialize (src/index.ts:336-343); setupEventListeners arms the storage,
\* beforeunload and focus handlers, which the actions below take from phase.
initialize(s) ==
    IF s.initialized THEN s
    ELSE markInitialized(ensureThisWindowInList(loadStateFromStorage(s)))

\* The option callbacks, added in the order the constructor tests them
\* (src/index.ts:123-133).
OptionOrder == <<"state", "message", "newWindow", "removeWindow", "windowUpdate",
                 "activeWindowChange", "meta">>

RECURSIVE addOptionListeners(_, _, _)
addOptionListeners(s, on, i) ==
    IF i > Len(OptionOrder) THEN s
    ELSE addOptionListeners(
            IF OptionOrder[i] \in on THEN addListener(s, OptionOrder[i], "opt") ELSE s,
            on, i + 1)

\* startMovePolling (src/index.ts:385-390)
startMovePolling(s) == [s EXCEPT !.movePollInterval = 1, !.timerArmed = TRUE]

\* stopMovePolling that leaves the handle in the field.
stopMovePolling_KeepsHandle(s) ==
    IF s.thrown \/ s.movePollInterval = 0 THEN s
    ELSE [s EXCEPT !.timerArmed = FALSE,
                   !.log = Append(@, Write("clearInterval", NoItem))]

\* stopMovePolling (src/index.ts:395-400); the log gets the clearInterval call.
stopMovePolling(s) ==
    IF s.thrown \/ s.movePollInterval = 0 THEN s
    ELSE [s EXCEPT !.movePollInterval = 0, !.timerArmed = FALSE,
                   !.log = Append(@, Write("clearInterval", NoItem))]

\* The constructor after this.initialize() (src/index.ts:123-137), which an
\* exception of initialize does not reach.
afterInitialize(s, on) ==
    IF s.thrown THEN s
    ELSE startMovePolling(
            [addOptionListeners(s, on, 1) EXCEPT !.lastWindowRect = getWindowRect(s)])

\* constructor (src/index.ts:114-138)
constructor(s, initialMeta, on) ==
    afterInitialize(initialize([initCurrentWindow(s) EXCEPT !.meta = initialMeta]), on)

(***************************************************************************)
(* Public operations.                                                      *)
(***************************************************************************)
\* updateMeta that keeps the new meta to itself.
updateMeta_NoWrite(s, meta) ==
    emitStateChange(Dispatch([s EXCEPT !.meta = meta], "meta", NoWindow, meta, NoMessage))

\* updateMeta that tells the listeners before it writes.
updateMeta_NotifyFirst(s, meta) ==
    emitStateChange(
        updateStorageData(
            Dispatch([s EXCEPT !.meta = meta], "meta", NoWindow, meta, NoMessage)))

\* updateMeta (src/index.ts:310-317)
updateMeta(s, meta) ==
    emitStateChange(
        Dispatch(updateStorageData([s EXCEPT !.meta = meta]),
                 "meta", NoWindow, meta, NoMessage))

\* sendMessage that signs with the id of the active window.
sendMessage_FromActive(s, message) ==
    [s EXCEPT !.posted = Append(@, [from |-> s.activeWindow.id, message |-> message])]

\* sendMessage (src/index.ts:323-328)
sendMessage(s, message) ==
    [s EXCEPT !.posted = Append(@, [from |-> s.thisWindow.id, message |-> message])]

(***************************************************************************)
(* Event handlers.                                                         *)
(***************************************************************************)
\* handleWindowRectChange (src/index.ts:406-422)
\* The comparison without the two scroll offsets.
RectChanged_NoScroll(rect, lastRect) ==
    \/ rect.screenX # lastRect.screenX
    \/ rect.screenY # lastRect.screenY
    \/ rect.screenTop # lastRect.screenTop
    \/ rect.screenLeft # lastRect.screenLeft

RectChanged(rect, lastRect) ==
    \/ rect.screenX # lastRect.screenX
    \/ rect.screenY # lastRect.screenY
    \/ rect.screenTop # lastRect.screenTop
    \/ rect.screenLeft # lastRect.screenLeft
    \/ rect.scrollX # lastRect.scrollX
    \/ rect.scrollY # lastRect.scrollY

handleWindowRectChange(s) ==
    LET rect == getWindowRect(s)
    IN  IF ~RectChanged(rect, s.lastWindowRect) THEN s
        ELSE emitStateChange(updateStorageData(updateThisWindowInList(
                [s EXCEPT !.lastWindowRect = rect,
                          !.thisWindow = Spread(s.thisWindow, rect),
                          !.activeIsThis = FALSE])))

\* for (const win of ws) if (<i is picked>) for (const listener of ...) listener(win)
RECURSIVE DispatchEach(_, _, _, _, _)
DispatchEach(s, cat, ws, picked, i) ==
    IF i > Len(ws) THEN s
    ELSE DispatchEach(
            IF i \in picked THEN Dispatch(s, cat, ws[i], Undefined, NoMessage) ELSE s,
            cat, ws, picked, i + 1)

\* prevState.windows.find((w) => w.id === id), NoWindow for undefined
Find(ws, id) == IF HasId(ws, id) THEN ws[FindIndex(ws, id)] ELSE NoWindow

\* The meta comparison made after the mirror took the new meta.
MetaChanged_AfterAssign(prevState, data) ==
    StringifyMeta(data.meta) # StringifyMeta(data.meta)

\* JSON.stringify(prevState.meta) !== JSON.stringify(data.meta)
\* (src/index.ts:535)
MetaChanged(prevState, data) ==
    StringifyMeta(prevState.meta) # StringifyMeta(data.meta)

\* The new windows taken by position: those past the length of the mirror.
AddedWindows_ByPosition(prevState, data) ==
    {i \in DOMAIN data.windows : i > Len(prevState.windows)}

\* The positions in data.windows of the windows whose id the mirror does not
\* hold (src/index.ts:502-504).
AddedWindows(prevState, data) ==
    {i \in DOMAIN data.windows : ~HasId(prevState.windows, data.windows[i].id)}

\* The removed windows taken by position: those past the length of the list
\* read.
RemovedWindows_ByPosition(prevState, data) ==
    {i \in DOMAIN prevState.windows : i > Len(data.windows)}

\* The positions in the mirror of the windows whose id data.windows does not
\* hold (src/index.ts:511-513).
RemovedWindows(prevState, data) ==
    {i \in DOMAIN prevState.windows : ~HasId(data.windows, prevState.windows[i].id)}

\* The updated windows found by comparing the two horizontal screen
\* coordinates alone.
UpdatedWindows_ByScreenX(prevState, data) ==
    {i \in DOMAIN data.windows :
        /\ HasId(prevState.windows, data.windows[i].id)
        /\ Find(prevState.windows, data.windows[i].id).screenX # data.windows[i].screenX}

\* The positions in data.windows of the windows that the mirror holds with
\* another JSON text (src/index.ts:520-522).
UpdatedWindows(prevState, data) ==
    {i \in DOMAIN data.windows :
        /\ HasId(prevState.windows, data.windows[i].id)
        /\ StringifyWindow(Find(prevState.windows, data.windows[i].id))
              # StringifyWindow(data.windows[i])}

\* if (<test>) for (const listener of this.<cat>Listeners) listener(...)
DispatchIf(test, s, cat, w, m) ==
    IF test THEN Dispatch(s, cat, w, m, NoMessage) ELSE s

\* this.windows = data.windows; this.meta = data.meta; this.emitStateChange()
\* (src/index.ts:542-544)
assignAndEmit(s, data) ==
    IF s.thrown THEN s
    ELSE emitStateChange([s EXCEPT !.windows = data.windows, !.meta = data.meta])

\* handleStorageEvent that takes the windows and the meta read into the
\* mirror before it calls the listeners.
handleStorageEvent_AssignsFirst(s, key) ==
    IF key # "windows" THEN s
    ELSE
    LET prevState == getCurrentState(s)
        data == getStorageData(s)
        added == AddedWindows(prevState, data)
        removed == RemovedWindows(prevState, data)
        updated == UpdatedWindows(prevState, data)
        s1 == DispatchEach([s EXCEPT !.windows = data.windows, !.meta = data.meta],
                           "newWindow", data.windows, added, 1)
        s2 == DispatchEach(s1, "removeWindow", prevState.windows, removed, 1)
        s3 == DispatchEach(s2, "windowUpdate", data.windows, updated, 1)
        s4 == DispatchIf(prevState.activeWindow.id # data.activeWindow.id,
                         s3, "activeWindowChange", data.activeWindow, Undefined)
        s5 == DispatchIf(MetaChanged(prevState, data), s4, "meta", NoWindow, data.meta)
        s6 == setActiveWindow(s5, data.activeWindow,
                              IF data.activeWindow = NoWindow THEN "null" ELSE "fresh")
    IN  IF data.error THEN [s EXCEPT !.thrown = TRUE]
        ELSE assignAndEmit(s6, data)

\* handleStorageEvent (src/index.ts:496-546)
handleStorageEvent(s, key) ==
    IF key # "windows" THEN s
    ELSE
    LET prevState == getCurrentState(s)
        data == getStorageData(s)
        added == AddedWindows(prevState, data)
        removed == RemovedWindows(prevState, data)
        updated == UpdatedWindows(prevState, data)
        s1 == DispatchEach(s, "newWindow", data.windows, added, 1)
        s2 == DispatchEach(s1, "removeWindow", prevState.windows, removed, 1)
        s3 == DispatchEach(s2, "windowUpdate", data.windows, updated, 1)
        s4 == DispatchIf(prevState.activeWindow.id # data.activeWindow.id,
                         s3, "activeWindowChange", data.activeWindow, Undefined)
        s5 == DispatchIf(MetaChanged(prevState, data), s4, "meta", NoWindow, data.meta)
        s6 == setActiveWindow(s5, data.activeWindow,
                              IF data.activeWindow = NoWindow THEN "null" ELSE "fresh")
    IN  IF data.error THEN [s EXCEPT !.thrown = TRUE]
        ELSE assignAndEmit(s6, data)

\* handleBeforeUnload that removes the item without testing the list.
handleBeforeUnload_NoTest(s) ==
    removeItem(setActiveWindow(stopMovePolling(removeThisWindow(s)), NoWindow, "null"))

\* if (this.windows.length === 0) removeItem else updateStorageData
\* (src/index.ts:556-560)
removeOrUpdate(s) ==
    IF Len(s.windows) = 0 THEN removeItem(s) ELSE updateStorageData(s)

\* handleBeforeUnload (src/index.ts:552-561)
handleBeforeUnload(s) ==
    removeOrUpdate(setActiveWindow(stopMovePolling(removeThisWindow(s)), NoWindow, "null"))

\* handleFocus (src/index.ts:567-570)
handleFocus(s) == updateStorageData(setActiveWindow(s, s.thisWindow, "this"))

\* handleChannelMessage that takes `from` and `message` from the event
\* instead of event.data.
handleChannelMessage_FromEvent(s, data) ==
    Dispatch(s, "message", NoWindow, Undefined, NoMessage)

\* handleChannelMessage (src/index.ts:631-636)
handleChannelMessage(s, data) ==
    Dispatch(s, "message", NoWindow, Undefined, data)

(***************************************************************************)
(* The system: the contexts, the host and the two channels between them.   *)
(***************************************************************************)
\* `last` tells which handler ran last, in which context and with which
\* argument, the listener calls and registry writes it made, the instance it
\* found, whether it changed the stored registry and whether the same handler
\* ran in the same context just before it.
NoLast ==
    [op |-> "init", ctx |-> "none", arg |-> <<>>, log |-> <<>>, thrown |-> FALSE,
     before |-> NoMgr, wrote |-> FALSE, repeated |-> FALSE]

\* lastMeta is the argument of the latest updateMeta call and updaters the
\* contexts that called it; raced holds the other contexts that, since that
\* call, wrote the registry while a storage event was still queued for them;
\* retired holds <<context, category, listener>> for a listener that was
\* removed right after it was added and not added since; final tells that the
\* application has made its last updateMeta call, and owed holds the contexts
\* that had a page when the latest call was made and whose meta-changed
\* listeners have not been called with its value since; held holds those of
\* them whose mirror held that value already when the call was made.  sent
\* counts the numbered messages a context has sent, and got[d][c] is the
\* number of the message from c that the message listeners of d were called
\* with last.
NoHist ==
    [lastMeta |-> Undefined, updaters |-> {}, raced |-> {}, retired |-> {},
     final |-> FALSE, owed |-> {}, held |-> {},
     sent |-> [c \in Ctx |-> 0], got |-> [d \in Ctx |-> [c \in Ctx |-> 0]]]

Start(rec) ==
    /\ recording = rec
    /\ phase = [c \in Ctx |-> "none"]
    /\ win = [c \in Ctx |-> Rect0]
    /\ session = [c \in Ctx |-> NoWindow]
    /\ mgr = [c \in Ctx |-> NoMgr]
    /\ store = NoItem
    /\ pending = [c \in Ctx |-> 0]
    /\ inbox = [c \in Ctx |-> <<>>]
    /\ nextId = 1
    /\ last = NoLast
    /\ hist = NoHist

\* Init keeps the record of the last handler.  InitStates does not: a
\* specification that starts there has the same behaviours of the program and
\* fewer states, for the claims that speak of the program's state alone.
\* InitOwed keeps, instead, the contexts that are owed a meta-changed call.
Init == Start({"last"})

InitStates == Start({})

InitOwed == Start({"owed"})

\* InitCalls keeps, of the last handler, which it was and the calls it made.
InitCalls == Start({"calls"})

\* InitFifo keeps that, and the number of the last message each context's
\* listeners got from each sender.
InitFifo == Start({"calls", "fifo"})

\* A context has a document, with the instance's handlers attached, from its
\* construction until the page goes away.
HasPage(c) == phase[c] # "none"

Live(c) == phase[c] = "live"

FrameOf(c) == Frame(mgr[c], store, session[c], win[c], nextId)

\* The documents that get the storage events of a write made in c, and the
\* channel objects that get a message posted in c (src/index.ts:324): those
\* of the other contexts.
Recipients(c) == {d \in Ctx \ {c} : HasPage(d)}

\* The recipients have room for the storage events and the messages the
\* handler raised.
Room(c, s) ==
    \A d \in Recipients(c) :
        /\ pending[d] + s.events <= MaxPending
        /\ Len(inbox[d]) + Len(s.posted) <= MaxInbox

Envelopes(c, s) == [i \in DOMAIN s.posted |-> [data |-> s.posted[i], source |-> c]]

\* The effect of a handler that ran in context c and ended in frame s;
\* `taken` is the number of storage events it took from c's queue.
Commit(c, op, arg, s, taken) ==
    /\ Room(c, s)
    /\ mgr' = [mgr EXCEPT ![c] = MgrOf(s)]
    /\ store' = s.store
    /\ session' = [session EXCEPT ![c] = s.session]
    /\ pending' = [d \in Ctx |->
                      IF d = c THEN pending[d] - taken
                      ELSE IF d \in Recipients(c) THEN pending[d] + s.events
                      ELSE pending[d]]
    /\ last' = IF "last" \in recording
               THEN [op |-> op, ctx |-> c, arg |-> arg, log |-> s.log,
                     thrown |-> s.thrown, before |-> mgr[c], wrote |-> (s.store # store),
                     repeated |-> (last.op = op /\ last.ctx = c)]
               ELSE IF "calls" \in recording
               THEN [NoLast EXCEPT !.op = op, !.ctx = c, !.arg = arg, !.log = s.log]
               ELSE NoLast
    /\ UNCHANGED recording

\* The handler that ended in frame s wrote the registry.
Wrote(s) == \E i \in DOMAIN s.log : s.log[i].cat \in {"setItem", "removeItem"}

\* The history after a handler of c that may write the registry.
NoteWrite(c, s) ==
    [hist EXCEPT !.raced =
        IF hist.updaters # {} /\ c \notin hist.updaters /\ pending[c] > 0 /\ Wrote(s)
        THEN @ \cup {c} ELSE @]

\* What is left of a constructor call that threw: the storage it wrote and
\* no instance.
Failed(s) == NoMgr @@ s

\* The constructor call of context c ended in frame s.
Returned(c, initialMeta, s) ==
    /\ Commit(c, "construct", initialMeta, IF s.thrown THEN Failed(s) ELSE s, 0)
    /\ phase' = [phase EXCEPT ![c] = IF s.thrown THEN @ ELSE "live"]
    /\ nextId' = IF session[c] = NoWindow THEN nextId + 1 ELSE nextId
    /\ UNCHANGED <<win, inbox, hist>>

\* new WindowsManager(options) in a context without a page; `on` are the
\* categories the options hold a callback for.  When the constructor throws,
\* the caller gets no instance and no handler is attached.
Construct(c, initialMeta, on) ==
    /\ phase[c] = "none"
    /\ session[c] = NoWindow => nextId <= MaxIds
    /\ Returned(c, initialMeta, constructor(FrameOf(c), initialMeta, on))

\* The host moves or scrolls the window of c: one tracked field changes.
MoveWindow(c, f, v) ==
    /\ HasPage(c)
    /\ win[c][f] # v
    /\ win' = [win EXCEPT ![c][f] = v]
    /\ UNCHANGED <<phase, session, mgr, store, pending, inbox, nextId, last, hist, recording>>

\* A resize event (src/index.ts:136).
Resize(c) ==
    /\ HasPage(c)
    /\ Commit(c, "rect", [by |-> "resize", rect |-> win[c]],
              handleWindowRectChange(FrameOf(c)), 0)
    /\ hist' = NoteWrite(c, handleWindowRectChange(FrameOf(c)))
    /\ UNCHANGED <<phase, win, inbox, nextId>>

\* A tick of the interval timer (src/index.ts:386-389).
PollTick(c) ==
    /\ HasPage(c)
    /\ mgr[c].timerArmed
    /\ Commit(c, "rect", [by |-> "poll", rect |-> win[c]],
              handleWindowRectChange(FrameOf(c)), 0)
    /\ hist' = NoteWrite(c, handleWindowRectChange(FrameOf(c)))
    /\ UNCHANGED <<phase, win, inbox, nextId>>

\* A focus event.
Focus(c) ==
    /\ HasPage(c)
    /\ Commit(c, "focus", <<>>, handleFocus(FrameOf(c)), 0)
    /\ hist' = NoteWrite(c, handleFocus(FrameOf(c)))
    /\ UNCHANGED <<phase, win, inbox, nextId>>

\* The application calls updateMeta, and says whether it is its last call.
UpdateMetaCall(c, meta, final) ==
    /\ HasPage(c)
    /\ ~hist.final
    /\ Commit(c, "updateMeta", meta, updateMeta(FrameOf(c), meta), 0)
    /\ hist' = [hist EXCEPT !.lastMeta = meta, !.updaters = @ \cup {c}, !.raced = {},
                            !.final = final,
                            !.owed = IF "owed" \in recording THEN Recipients(c) ELSE {},
                            !.held = IF "owed" \in recording
                                     THEN {d \in Recipients(c) :
                                             StringifyMeta(mgr[d].meta) = StringifyMeta(meta)}
                                     ELSE {}]
    /\ UNCHANGED <<phase, win, inbox, nextId>>

UpdateMeta(c, meta) == UpdateMetaCall(c, meta, FALSE)

LastUpdateMeta(c, meta) == UpdateMetaCall(c, meta, TRUE)

\* The handler that ended in frame s called a meta-changed listener with meta.
ToldMeta(s, meta) ==
    \E i \in DOMAIN s.log :
        s.log[i].cat = "meta" /\ StringifyMeta(s.log[i].meta) = StringifyMeta(meta)

\* A queued storage event for the registry key reaches c.
StorageEvent(c) ==
    /\ HasPage(c)
    /\ pending[c] > 0
    /\ Commit(c, "storage", "windows", handleStorageEvent(FrameOf(c), "windows"), 1)
    /\ hist' = [hist EXCEPT !.owed =
                    IF ToldMeta(handleStorageEvent(FrameOf(c), "windows"), hist.lastMeta)
                    THEN @ \ {c} ELSE @]
    /\ UNCHANGED <<phase, win, inbox, nextId>>

\* A beforeunload event.
BeforeUnload(c) ==
    /\ HasPage(c)
    /\ Commit(c, "unload", <<>>, handleBeforeUnload(FrameOf(c)), 0)
    /\ phase' = [phase EXCEPT ![c] = "unloaded"]
    /\ hist' = NoteWrite(c, handleBeforeUnload(FrameOf(c)))
    /\ UNCHANGED <<win, inbox, nextId>>

\* The page goes away after beforeunload: a reload keeps sessionStorage, a
\* closed tab loses it.  Events queued for the document are dropped.
PageGone(c, reload) ==
    /\ phase[c] = "unloaded"
    /\ phase' = [phase EXCEPT ![c] = "none"]
    /\ mgr' = [mgr EXCEPT ![c] = NoMgr]
    /\ session' = [session EXCEPT ![c] = IF reload THEN @ ELSE NoWindow]
    /\ pending' = [pending EXCEPT ![c] = 0]
    /\ inbox' = [inbox EXCEPT ![c] = <<>>]
    /\ hist' = [hist EXCEPT !.retired = {r \in @ : r[1] # c}, !.owed = @ \ {c},
                            !.held = @ \ {c}]
    /\ UNCHANGED <<win, store, nextId, last, recording>>

\* Another script of the origin puts text that is not JSON under the registry
\* key; the documents get a storage event for it.
Corrupt ==
    /\ store # Garbage
    /\ \A d \in Ctx : HasPage(d) => pending[d] < MaxPending
    /\ store' = Garbage
    /\ pending' = [d \in Ctx |-> IF HasPage(d) THEN pending[d] + 1 ELSE pending[d]]
    /\ UNCHANGED <<phase, win, session, mgr, inbox, nextId, last, hist, recording>>

\* The application calls sendMessage; the channel queues the envelope for the
\* channel objects of the other contexts.
SendMessageCall(c, message, numbered) ==
    LET s == sendMessage(FrameOf(c), message)
    IN  /\ HasPage(c)
        /\ Commit(c, "sendMessage", message, s, 0)
        /\ inbox' = [d \in Ctx |->
                        IF d \in Recipients(c) THEN inbox[d] \o Envelopes(c, s)
                        ELSE inbox[d]]
        /\ hist' = IF numbered THEN [hist EXCEPT !.sent[c] = @ + 1] ELSE hist
        /\ UNCHANGED <<phase, win, nextId>>

SendMessage(c, message) == SendMessageCall(c, message, FALSE)

\* The application sends its messages numbered 1, 2, 3, ...
SendNext(c) ==
    /\ hist.sent[c] < MaxSends
    /\ SendMessageCall(c, hist.sent[c] + 1, TRUE)

\* The message the handler that ended in frame s called the message listeners
\* with last, 0 when it called none.
Told(s) ==
    LET calls == SelectSeq(s.log, LAMBDA e : e.cat = "message")
    IN  IF calls = <<>> THEN 0 ELSE calls[Len(calls)].msg.message

\* The oldest queued message reaches the channel object of c.
Deliver(c) ==
    /\ HasPage(c)
    /\ inbox[c] # <<>>
    /\ Commit(c, "message", Head(inbox[c]).source,
              handleChannelMessage(FrameOf(c), Head(inbox[c]).data), 0)
    /\ inbox' = [inbox EXCEPT ![c] = Tail(@)]
    /\ hist' = IF /\ "fifo" \in recording
                  /\ \E i \in DOMAIN handleChannelMessage(FrameOf(c), Head(inbox[c]).data).log :
                        handleChannelMessage(FrameOf(c), Head(inbox[c]).data).log[i].cat
                            = "message"
               THEN [hist EXCEPT !.got[c][Head(inbox[c]).source] =
                        Told(handleChannelMessage(FrameOf(c), Head(inbox[c]).data))]
               ELSE hist
    /\ UNCHANGED <<phase, win, nextId>>

\* The application calls add<cat>Listener(l).
AddListener(c, cat, l) ==
    /\ HasPage(c)
    /\ Len(mgr[c].listeners[cat]) < MaxListeners
    /\ Commit(c, "add", <<cat, l>>, addListener(FrameOf(c), cat, l), 0)
    /\ hist' = [hist EXCEPT !.retired = @ \ {<<c, cat, l>>}]
    /\ UNCHANGED <<phase, win, inbox, nextId>>

\* The application calls remove<cat>Listener(l), or the function that
\* add<cat>Listener(l) returned.
RemoveListener(c, cat, l) ==
    /\ HasPage(c)
    /\ Commit(c, "remove", <<cat, l>>, removeListener(FrameOf(c), cat, l), 0)
    /\ hist' = [hist EXCEPT !.retired =
                    IF last.op = "add" /\ last.ctx = c /\ last.arg = <<cat, l>>
                    THEN @ \cup {<<c, cat, l>>} ELSE @]
    /\ UNCHANGED <<phase, win, inbox, nextId>>

(***************************************************************************)
(* Specifications.  Each one lets the environment do a part of what it can *)
(* do, over the same handlers.                                             *)
(***************************************************************************)
\* Spec: the life of the contexts and the registry of windows.  Pages are
\* constructed, focused, unloaded (possibly twice), reloaded and closed, and
\* storage events are delivered in any order with respect to all of it.
Next ==
    \/ \E c \in Ctx : Construct(c, Undefined, Categories)
    \/ \E c \in Ctx : Live(c) /\ Focus(c)
    \/ \E c \in Ctx : Live(c) /\ StorageEvent(c)
    \/ \E c \in Ctx : BeforeUnload(c)
    \/ \E c \in Ctx, reload \in BOOLEAN : PageGone(c, reload)

Spec == Init /\ [][Next]_vars

\* SpecAll: every kind of operation on the registry, on states alone.  w1
\* stays: it is focused, calls updateMeta and is moved; w2 comes and goes by
\* reloading, and is focused while it is there.
NextAll ==
    \/ \E c \in Ctx : Construct(c, Undefined, Categories)
    \/ \E c \in Ctx : Live(c) /\ Focus(c)
    \/ Live("w1") /\ UpdateMeta("w1", Obj(<<"a">>))
    \/ \E v \in Coords : Live("w1") /\ MoveWindow("w1", "screenX", v)
    \/ Live("w1") /\ PollTick("w1")
    \/ \E c \in Ctx : Live(c) /\ StorageEvent(c)
    \/ Live("w2") /\ BeforeUnload("w2")
    \/ PageGone("w2", TRUE)

SpecAll == InitStates /\ [][NextAll]_vars

\* SpecMeta: the shared meta.  Both contexts stay; w1 is the context that
\* calls updateMeta, and either may be focused.
NextMeta ==
    \/ \E c \in Ctx : Construct(c, Undefined, Categories)
    \/ \E c \in Ctx : Focus(c)
    \/ \E m \in MetaArgs : UpdateMeta("w1", m)
    \/ \E c \in Ctx : StorageEvent(c)

SpecMeta == Init /\ [][NextMeta]_vars

\* SpecMetaFair: the same, where w1 at some point makes its last updateMeta
\* call and every queued storage event is delivered: the event loop of a
\* document runs the handler of an event that is queued for it.
NextMetaFair ==
    \/ NextMeta
    \/ \E m \in MetaArgs : LastUpdateMeta("w1", m)

\* A step that takes one storage event from c's queue: the steps of
\* StorageEvent(c) and no others, enabled whenever StorageEvent(c) is (the
\* handler raises no event, so it always has Room).
TakesStorageEvent(c) ==
    /\ HasPage(c)
    /\ pending[c] > 0
    /\ pending' = [pending EXCEPT ![c] = @ - 1]
    /\ UNCHANGED phase

SpecMetaFair ==
    /\ InitOwed /\ [][NextMetaFair]_vars
    /\ \A c \in Ctx : WF_<<pending, phase>>(TakesStorageEvent(c))

\* SpecRace: w1 calls updateMeta while w2 is focused, is moved and polls its
\* geometry, and both take their storage events, in any order.
NextRace ==
    \/ \E c \in Ctx : Construct(c, Undefined, Categories)
    \/ \E c \in Ctx : Focus(c)
    \/ \E m \in MetaArgs : UpdateMeta("w1", m)
    \/ \E v \in Coords : MoveWindow("w2", "screenX", v)
    \/ PollTick("w2")
    \/ \E c \in Ctx : StorageEvent(c)

SpecRace == InitStates /\ [][NextRace]_vars

\* A move changes one tracked field of a window at rest or brings it back.
AtRestBut(c, f) == \A g \in RectFields \ {f} : win[c][g] = 0

\* SpecRect: the geometry of one window, which the host moves along any of
\* the six tracked fields.
NextRect ==
    \/ \E im \in InitialMetas : Construct("w1", im, Categories)
    \/ \E f \in RectFields, v \in Coords : AtRestBut("w1", f) /\ MoveWindow("w1", f, v)
    \/ Resize("w1")
    \/ PollTick("w1")
    \/ Focus("w1")
    \/ BeforeUnload("w1")
    \/ PageGone("w1", TRUE)

SpecRect == Init /\ [][NextRect]_vars

\* SpecListen: listeners that come and go.  w1 is made with the option
\* callback of one category, and adds and removes a listener of its own in
\* that category; w2 causes the events: it comes, is focused and moved, calls
\* updateMeta, reloads, and calls sendMessage when w1 listens to messages.
ListenerIds == {"f"}

\* The category c was made with an option callback for.
Listens(c, cat) == mgr[c].listeners[cat] # <<>>

NextListen ==
    \/ \E cat \in Categories : Construct("w1", Undefined, {cat})
    \/ Construct("w2", Undefined, {})
    \/ \E cat \in Categories, l \in ListenerIds :
            Live("w1") /\ Listens("w1", cat) /\ AddListener("w1", cat, l)
    \/ \E cat \in Categories, l \in ListenerIds :
            Live("w1") /\ Listens("w1", cat) /\ RemoveListener("w1", cat, l)
    \/ Live("w2") /\ Focus("w2")
    \/ Live("w2") /\ UpdateMeta("w2", Obj(<<"a">>))
    \/ \E v \in Coords : Live("w2") /\ MoveWindow("w2", "screenX", v)
    \/ Live("w2") /\ PollTick("w2")
    \/ Live("w2") /\ Listens("w1", "message") /\ SendMessage("w2", "ping")
    \/ Live("w2") /\ BeforeUnload("w2")
    \/ PageGone("w2", TRUE)
    \/ Live("w1") /\ StorageEvent("w1")
    \/ Live("w1") /\ Deliver("w1")

SpecListen == InitCalls /\ [][NextListen]_vars

\* SpecTwice: one context that adds and removes a listener of its own, up to
\* twice in a category, and causes the events itself: it is focused, calls
\* updateMeta, is moved and polls its geometry.
SelfCategories == {"state", "meta", "activeWindowChange", "windowUpdate"}

NextTwice ==
    \/ Construct("w1", Undefined, {})
    \/ \E cat \in SelfCategories, l \in ListenerIds : AddListener("w1", cat, l)
    \/ \E cat \in SelfCategories, l \in ListenerIds : RemoveListener("w1", cat, l)
    \/ Focus("w1")
    \/ UpdateMeta("w1", Obj(<<"a">>))
    \/ \E v \in Coords : MoveWindow("w1", "screenX", v)
    \/ PollTick("w1")

SpecTwice == Init /\ [][NextTwice]_vars

\* SpecDuring: one context whose meta-changed and state-changed listeners
\* may subscribe and unsubscribe while they are being called.
DuringCategories == {"meta", "state"}
Callbacks == {"f", "swap", "once"}

NextDuring ==
    \/ Construct("w1", Undefined, {})
    \/ \E cat \in DuringCategories, l \in Callbacks : AddListener("w1", cat, l)
    \/ \E cat \in DuringCategories, l \in Callbacks \cup {"late"} :
            RemoveListener("w1", cat, l)
    \/ Focus("w1")
    \/ UpdateMeta("w1", Obj(<<"a">>))

SpecDuring == Init /\ [][NextDuring]_vars

\* SpecCorrupt: the life of the contexts as in Spec, with a registry item
\* that may be overwritten with text that is not JSON.
NextCorrupt ==
    \/ \E c \in Ctx : Construct(c, Undefined, Categories)
    \/ \E c \in Ctx : Live(c) /\ Focus(c)
    \/ \E c \in Ctx : Live(c) /\ StorageEvent(c)
    \/ \E c \in Ctx : Live(c) /\ BeforeUnload(c)
    \/ \E c \in Ctx : PageGone(c, TRUE)
    \/ Corrupt

SpecCorrupt == Init /\ [][NextCorrupt]_vars

\* SpecMsg: the message channel between two contexts.
Messages == {"ping", "pong"}

NextMsg ==
    \/ \E c \in Ctx : Construct(c, Undefined, {"message"})
    \/ \E c \in Ctx, m \in Messages : SendMessage(c, m)
    \/ \E c \in Ctx : Deliver(c)
    \/ \E c \in Ctx : Live(c) /\ BeforeUnload(c)
    \/ \E c \in Ctx : PageGone(c, TRUE)

SpecMsg == Init /\ [][NextMsg]_vars

\* SpecSync: one context that watches the registry and one that changes it.
\* w1 handles its storage notifications; w2 is moved and scrolled, is
\* focused, calls updateMeta, unloads and reloads.
NextSync ==
    \/ \E c \in Ctx : Construct(c, Undefined, Categories)
    \/ \E f \in {"screenX", "scrollY"}, v \in Coords : MoveWindow("w2", f, v)
    \/ Live("w2") /\ PollTick("w2")
    \/ Live("w2") /\ Focus("w2")
    \/ Live("w2") /\ UpdateMeta("w2", Obj(<<"a">>))
    \/ Live("w1") /\ StorageEvent("w1")
    \/ Live("w2") /\ BeforeUnload("w2")
    \/ PageGone("w2", TRUE)

SpecSync == Init /\ [][NextSync]_vars

\* SpecThrow: a context with a listener that throws.  w1 is made with the
\* seven option callbacks and then adds, to one category, a listener that
\* throws; w2 comes and goes, is focused, moved and calls updateMeta, and w1
\* handles its storage notifications.
NoneAdded(c) == \A cat \in Categories : Len(mgr[c].listeners[cat]) = 1

NextThrow ==
    \/ \E c \in Ctx : Construct(c, Undefined, Categories)
    \/ \E cat \in Categories \ {"message"} :
          Live("w1") /\ NoneAdded("w1") /\ AddListener("w1", cat, "throws")
    \/ \E v \in Coords : MoveWindow("w2", "screenX", v)
    \/ Live("w2") /\ PollTick("w2")
    \/ Live("w2") /\ Focus("w2")
    \/ Live("w2") /\ UpdateMeta("w2", Obj(<<"a">>))
    \/ Live("w1") /\ StorageEvent("w1")
    \/ Live("w2") /\ BeforeUnload("w2")
    \/ PageGone("w2", TRUE)

SpecThrow == Init /\ [][NextThrow]_vars

\* SpecFifo: the message channel with numbered messages.
NextFifo ==
    \/ \E c \in Ctx : Construct(c, Undefined, {"message"})
    \/ \E c \in Ctx : SendNext(c)
    \/ \E c \in Ctx : Deliver(c)
    \/ \E c \in Ctx : Live(c) /\ BeforeUnload(c)
    \/ \E c \in Ctx : PageGone(c, TRUE)

SpecFifo == InitFifo /\ [][NextFifo]_vars

(***************************************************************************)
(* C1.  In every reachable state the `windows` list of the persisted       *)
(* registry holds at most one record per window id, whatever the           *)
(* interleaving of constructions, focus events, geometry changes,          *)
(* updateMeta calls, storage notifications and unloads.                    *)
(***************************************************************************)
UniqueIds(ws) == \A i, j \in DOMAIN ws : ws[i].id = ws[j].id => i = j

C1_PersistedIdsUnique == UniqueIds(store.windows)

\* Both contexts are listed, after w1 was moved and called updateMeta and w2
\* came back from a reload.
C1_Witness ==
    /\ Len(store.windows) = 2
    /\ store.meta = Obj(<<"a">>)
    /\ \E i \in DOMAIN store.windows : store.windows[i].screenX = 1
    /\ Live("w1") /\ Live("w2")
    /\ nextId = 3
    /\ mgr["w2"].thisWindow.screen = "{}"

(***************************************************************************)
(* C2.  When w1 alone calls updateMeta while the contexts handle focus,    *)
(* geometry changes and storage notifications in any interleaving, the     *)
(* persisted meta, once every notification has been handled, is the last   *)
(* value passed to updateMeta.                                             *)
(***************************************************************************)
Quiescent == \A c \in Ctx : Live(c) /\ pending[c] = 0

\* The claim as stated.  It fails: a context that writes the registry before
\* it has handled the notification of the update writes its old meta back.
C2_FinalMetaIsLastValue ==
    (Quiescent /\ hist.updaters = {"w1"}) => store.meta = StringifyMeta(hist.lastMeta)

\* C2, amended: the persisted meta at quiescence is the last value passed to
\* updateMeta provided that, since that call, no other context wrote the
\* registry while a storage notification was still queued for it.
C2_FinalMetaUnlessRaced ==
    (Quiescent /\ hist.updaters = {"w1"} /\ hist.raced = {})
        => store.meta = StringifyMeta(hist.lastMeta)

\* w1 passed {b, a}; w2 took it in and then moved and was focused, and
\* nothing is queued.
C2_Witness ==
    /\ Quiescent /\ hist.updaters = {"w1"} /\ hist.raced = {}
    /\ hist.lastMeta = Obj(<<"b", "a">>)
    /\ mgr["w2"].meta = Obj(<<"b", "a">>)
    /\ store.activeWindow.id = mgr["w2"].thisWindow.id
    /\ store.activeWindow.screenX = 1

C4_NeverToSender ==
    /\ \A c \in Ctx : \A i \in DOMAIN inbox[c] : inbox[c][i].source # c
    /\ last.op = "sendMessage" =>
            \A i \in DOMAIN last.log : last.log[i].cat # "message"
    /\ last.op = "message" =>
            /\ last.arg # last.ctx
            /\ \A i \in DOMAIN last.log :
                    /\ last.log[i].cat = "message"
                    /\ last.log[i].msg.from = session[last.arg].id
                    /\ last.log[i].msg.from # mgr[last.ctx].thisWindow.id

\* w2's listener was called with "pong" from w1, which is still there and
\* has a message from w2 waiting.
C4_Witness ==
    /\ last.op = "message" /\ last.ctx = "w2" /\ last.arg = "w1"
    /\ Len(last.log) = 1
    /\ last.log[1].msg = [from |-> mgr["w1"].thisWindow.id, message |-> "pong"]
    /\ Live("w1")
    /\ inbox["w1"] # <<>>

(***************************************************************************)
(* C5.  In each of the seven categories, a listener that was registered    *)
(* and unregistered right after is called by no later event: no handler    *)
(* calls a listener that is retired in the category of the call.           *)
(***************************************************************************)
\* The handler that ran last called, in category cat, the option callback and
\* not f, which was added to that category and removed right after.
CalledWithout(cat) ==
    /\ <<last.ctx, cat, "f">> \in hist.retired
    /\ \E i \in DOMAIN last.log :
            last.log[i].cat = cat /\ last.log[i].listener = "opt"

C5_RetiredNeverCalled ==
    \A i \in DOMAIN last.log :
        <<last.ctx, last.log[i].cat, last.log[i].listener>> \notin hist.retired

\* A storage event told w1's option callback of a window that changed, after
\* f came and went.
C5_Witness == last.op = "storage" /\ CalledWithout("windowUpdate")

(***************************************************************************)
(* C6.  While one storage notification for the registry key is handled,    *)
(* the listeners are called in the order new-window, removed-window,       *)
(* updated-window, active-window-changed, meta-changed, state-changed: no  *)
(* listener of an earlier category is called after one of a later one.     *)
(***************************************************************************)
CategoryOrder == <<"newWindow", "removeWindow", "windowUpdate", "activeWindowChange",
                   "meta", "state">>

Rank(cat) == CHOOSE k \in DOMAIN CategoryOrder : CategoryOrder[k] = cat

\* The claim as stated.  It fails in the code: after the meta-changed
\* listeners, setActiveWindow finds the parsed active window to be another
\* object than the one it holds and calls the active-window-changed listeners.
C6_FixedOrder ==
    last.op = "storage" =>
        \A i, j \in DOMAIN last.log :
            i < j => Rank(last.log[i].cat) <= Rank(last.log[j].cat)

(***************************************************************************)
(* C7.  Reconciling the mirror {windows: [A, B], meta: m1, active: A} with *)
(* the registry {windows: [B, C], meta: m1, active: C} calls exactly       *)
(* removed-window(A), new-window(C), active-window-changed(C), each once   *)
(* and in that order, and neither meta-changed nor updated-window.         *)
(***************************************************************************)
IdsOf(ws) == [i \in DOMAIN ws |-> ws[i].id]

\* The handler that ran last reconciled such a mirror with such a registry.
ReconciledABC(a, b, c) ==
    /\ last.op = "storage"
    /\ a # b /\ b # c /\ a # c
    /\ IdsOf(last.before.windows) = <<a, b>>
    /\ last.before.activeWindow.id = a
    /\ IdsOf(store.windows) = <<b, c>>
    /\ store.activeWindow.id = c
    /\ StringifyMeta(last.before.meta) = store.meta
    /\ StringifyWindow(last.before.windows[2]) = store.windows[1]

\* The calls the last handler made to listeners other than state-changed.
Notifications == SelectSeq(last.log, LAMBDA x : x.cat \in Categories \ {"state"})

\* The claim as stated.  It fails in the code, which calls new-window(C)
\* before removed-window(A) and active-window-changed(C) twice.
C7_ReconcileABC ==
    \A a, b, c \in Ids :
        ReconciledABC(a, b, c) =>
            /\ Len(Notifications) = 3
            /\ Notifications[1].cat = "removeWindow" /\ Notifications[1].window.id = a
            /\ Notifications[2].cat = "newWindow" /\ Notifications[2].window.id = c
            /\ Notifications[3].cat = "activeWindowChange"
            /\ Notifications[3].window.id = c

(***************************************************************************)
(* C8.  When a context handles a change of its own geometry (a resize      *)
(* event or a poll tick that finds any tracked field different from the    *)
(* last rect it saw), it updates thisWindow in place: getCurrentState()    *)
(* right after has the new geometry.                                       *)
(***************************************************************************)
AnyFieldDiffers(rect, lastRect) == \E f \in RectFields : rect[f] # lastRect[f]

\* The handler that ran last was the geometry handler of c, whose page is
\* still there, and it found the window (at last.arg.rect) elsewhere than
\* where it last saw it.
SawOwnGeometryChange(c) ==
    /\ HasPage(c)
    /\ last.op = "rect" /\ last.ctx = c
    /\ AnyFieldDiffers(last.arg.rect, last.before.lastWindowRect)

C8_ThisWindowHasNewGeometry ==
    \A c \in Ctx :
        SawOwnGeometryChange(c) =>
            /\ \A f \in RectFields :
                    getCurrentState(FrameOf(c)).thisWindow[f] = last.arg.rect[f]
            /\ mgr[c].lastWindowRect = last.arg.rect

\* A poll tick found w1 scrolled, after a reload.
C8_Witness ==
    /\ SawOwnGeometryChange("w1") /\ last.arg.by = "poll"
    /\ last.arg.rect.scrollY = 1
    /\ last.before.thisWindow.screen = "{}"

(***************************************************************************)
(* C9.  Running the unload handler a second time leaves the persisted      *)
(* registry as the first run left it, and the second run raises no error.  *)
(***************************************************************************)
\* The unload handler of c ran twice in a row.
UnloadedTwice(c) == last.op = "unload" /\ last.ctx = c /\ last.repeated

C9_SecondUnloadChangesNothing ==
    \A c \in Ctx : UnloadedTwice(c) => ~last.wrote /\ ~last.thrown

\* w1 unloaded twice while w2 stays in the registry.
C9_Witness ==
    /\ UnloadedTwice("w1")
    /\ Live("w2")
    /\ store.kind = "json"
    /\ IdsOf(store.windows) = <<mgr["w2"].thisWindow.id>>
    /\ last.before.windows = store.windows

(***************************************************************************)
(* C10.  updateMeta(m) replaces the local meta by m, writes the full       *)
(* snapshot to the registry, then calls the meta-changed listeners with m  *)
(* and then the state-changed listeners, and calls no new-window,          *)
(* removed-window, updated-window or active-window-changed listener.       *)
(***************************************************************************)
C10_UpdateMetaWritesThenNotifies ==
    last.op = "updateMeta" =>
        LET c == last.ctx
            m == last.arg
            log == last.log
            nm == Len(last.before.listeners["meta"])
            ns == Len(last.before.listeners["state"])
        IN  /\ mgr[c].meta = m
            /\ Len(log) = 1 + nm + ns
            /\ log[1].cat = "setItem" /\ log[1].item = store
            /\ store = [kind |-> "json",
                        activeWindow |-> StringifyWindow(last.before.activeWindow),
                        windows |-> StringifyWindows(last.before.windows),
                        meta |-> StringifyMeta(m)]
            /\ \A i \in 1..nm :
                    /\ log[1 + i].cat = "meta"
                    /\ log[1 + i].listener = last.before.listeners["meta"][i]
                    /\ log[1 + i].meta = m
            /\ \A i \in 1..ns :
                    /\ log[1 + nm + i].cat = "state"
                    /\ log[1 + nm + i].listener = last.before.listeners["state"][i]
                    /\ log[1 + nm + i].state =
                            [activeWindow |-> last.before.activeWindow,
                             windows |-> last.before.windows,
                             thisWindow |-> last.before.thisWindow,
                             meta |-> m]

\* w1 passed {b, a} over {a, b} with both windows in its mirror, and its
\* listeners of both categories were called.
C10_Witness ==
    /\ last.op = "updateMeta" /\ last.ctx = "w1"
    /\ last.arg = Obj(<<"b", "a">>)
    /\ last.before.meta = Obj(<<"a", "b">>)
    /\ Len(last.before.windows) = 2
    /\ Len(last.log) = 3
    /\ pending["w2"] > 0

(***************************************************************************)
(* C11.  Subscribing is idempotent: a listener registered twice in one     *)
(* category is called once per event of that category.                     *)
(***************************************************************************)
\* The handlers that make at most one dispatch pass per category.
OnePassOps == {"focus", "updateMeta", "rect"}

\* The claim as stated.  It fails in the code: add<cat>Listener pushes the
\* listener whether or not the array holds it, and the pass calls it once
\* per element.
C11_CalledOncePerEvent ==
    last.op \in OnePassOps =>
        \A i, j \in DOMAIN last.log :
            (/\ last.log[i].cat \in Categories
             /\ last.log[i].cat = last.log[j].cat
             /\ last.log[i].listener = last.log[j].listener) => i = j

(***************************************************************************)
(* C12.  A dispatch pass calls exactly the listeners subscribed when the   *)
(* pass started, each once, whatever the callbacks subscribe or            *)
(* unsubscribe during the pass.                                            *)
(***************************************************************************)
\* The listeners of a category that the last handler called, in order.
CalledIn(cat) ==
    LET calls == SelectSeq(last.log, LAMBDA e : e.cat = cat)
    IN  [i \in DOMAIN calls |-> calls[i].listener]

\* The claim as stated, for the handlers that make at most one pass per
\* category.  It fails in the code: the loop walks the live array, so a
\* listener pushed by a callback is called in the same pass.
C12_PassCallsSnapshot ==
    (last.op \in OnePassOps /\ HasPage(last.ctx)) =>
        \A cat \in Categories :
            CalledIn(cat) \in {<<>>, last.before.listeners[cat]}

(***************************************************************************)
(* C13.  Reading the registry never raises an error to the caller, be the  *)
(* item missing or not parsable: construction and the handling of a        *)
(* storage notification end without an exception.                          *)
(***************************************************************************)
\* The claim as stated.  It holds of a missing item and fails of an item
\* that is not JSON text: getStorageData calls JSON.parse unguarded.
C13_ReadNeverRaises ==
    last.op \in {"construct", "storage"} => ~last.thrown

(***************************************************************************)
(* C14.  The id of the persisted activeWindow changes only when a context  *)
(* handles a focus event, or is cleared when the active context itself     *)
(* unloads: no other handler changes it.                                   *)
(***************************************************************************)
\* The claim as stated, on every step from a registry that exists.  It
\* fails in the code: construction
\* makes the new context the active window and persists it, and the unload
\* of any context clears it.
C14_ActiveChangesOnlyOnFocus ==
    [][(store.kind = "json" /\ store'.activeWindow.id # store.activeWindow.id) =>
          \/ last'.op = "focus"
          \/ /\ last'.op = "unload"
             /\ store.activeWindow.id = mgr[last'.ctx].thisWindow.id
             /\ store'.activeWindow = NoWindow]_vars

(***************************************************************************)
(* C15.  The unload of a context that is not the active window leaves the  *)
(* persisted activeWindow unchanged: the unload handler clears the active  *)
(* window only when it is the unloading context.                           *)
(***************************************************************************)
\* The claim as stated, on every first unload of a context that has handled
\* all its storage notifications, from a registry that exists.
\* It fails in the code: handleBeforeUnload calls setActiveWindow(null)
\* whoever is active.
C15_UnloadClearsOnlySelf ==
    [][(/\ last'.op = "unload"
        /\ phase[last'.ctx] = "live" /\ pending[last'.ctx] = 0
        /\ store.kind = "json"
        /\ store.activeWindow.id # mgr[last'.ctx].thisWindow.id) =>
            store'.activeWindow.id = store.activeWindow.id]_vars

(***************************************************************************)
(* C16.  The persisted registry is removed only by the unload of the last  *)
(* tracked context.                                                        *)
(***************************************************************************)
\* The step removes the registry item.
RegistryRemoved == store.kind = "json" /\ store'.kind = "absent"

Delivered(d) ==
    /\ HasPage(d) /\ phase'[d] = phase[d]
    /\ inbox[d] # <<>> /\ inbox'[d] = Tail(inbox[d])

\* Whenever the message listeners of d are called for a message of sender c,
\* its number is greater than the number of every message of c they were
\* called with before.
C17_PerSenderFifo ==
    [][\A d \in Ctx : Delivered(d) =>
          \A i \in DOMAIN last'.log :
              last'.log[i].cat = "message" =>
                  last'.log[i].msg.message > hist.got[d][Head(inbox[d]).source]]_vars

\* The listener of w2 got w1's messages 1 and 2, which were both queued for
\* it at one time, and a message of w2 reached w1 in between.
C17_Witness ==
    /\ last.op = "message" /\ last.ctx = "w2" /\ last.log # <<>>
    /\ hist.got["w2"]["w1"] = 2
    /\ hist.got["w1"]["w2"] = 1
    /\ hist.sent["w1"] = 3 /\ Len(inbox["w2"]) = 1

(***************************************************************************)
(* C18.  The poll timer of an instance is armed at construction and        *)
(* cancelled by the unload handler; however often the unload handler       *)
(* runs, the timer is cancelled at most once, and no tick of it is         *)
(* processed after the first unload.                                       *)
(***************************************************************************)
\* The number of clearInterval calls in a log.
Cancels(log) == Cardinality({i \in DOMAIN log : log[i].cat = "clearInterval"})

\* From construction to the first unload the timer runs; after an unload it
\* does not run, so that no tick comes; the unload handler calls
\* clearInterval once if it finds the timer running and not at all if it
\* does not, which is the case of every unload but the first.
C18_TimerCancelledOnce ==
    \A c \in Ctx :
        /\ Live(c) => mgr[c].timerArmed /\ mgr[c].movePollInterval # 0
        /\ phase[c] = "unloaded" => ~mgr[c].timerArmed
        /\ (last.op = "unload" /\ last.ctx = c) =>
               Cancels(last.log) = IF last.before.timerArmed THEN 1 ELSE 0
        /\ (last.op = "unload" /\ last.ctx = c /\ last.repeated) =>
               Cancels(last.log) = 0
        /\ (last.op = "rect" /\ last.ctx = c /\ last.arg.by = "poll") =>
               last.before.timerArmed

\* The unload handler ran a second time and cancelled nothing.
C18_Witness ==
    /\ last.op = "unload" /\ last.ctx = "w1" /\ last.repeated
    /\ phase["w1"] = "unloaded"
    /\ ~last.before.timerArmed
    /\ Cancels(last.log) = 0

(***************************************************************************)
(* C19.  The window id of a context never changes: after every handler    *)
(* thisWindow.id is the id obtained at construction, and constructing the  *)
(* manager again in a context that kept its session record yields the      *)
(* same id.                                                                *)
(***************************************************************************)
\* No step changes the id of an instance; an instance constructed in a
\* context that has a session record takes the id of that record; and the
\* id of an instance is at all times the id of its session record, which
\* is written at construction.
C19_WindowIdImmutable ==
    [][\A c \in Ctx :
          /\ (HasPage(c) /\ phase'[c] # "none") =>
                 mgr'[c].thisWindow.id = mgr[c].thisWindow.id
          /\ (phase[c] = "none" /\ phase'[c] = "live" /\ session[c] # NoWindow) =>
                 mgr'[c].thisWindow.id = session[c].id
          /\ phase'[c] # "none" =>
                 /\ session'[c] # NoWindow
                 /\ mgr'[c].thisWindow.id = session'[c].id]_vars

\* w2 was constructed first and w1 second, w2 reloaded (it is listed after
\* w1) and has the id it had, and w1 has the id of its session record after
\* a geometry change, an updateMeta call and a storage notification.
C19_Witness ==
    /\ Live("w1") /\ Live("w2")
    /\ mgr["w2"].thisWindow.id = 1 /\ mgr["w1"].thisWindow.id = 2
    /\ store.kind = "json" /\ IdsOf(store.windows) = <<2, 1>>
    /\ IdsOf(mgr["w1"].windows) = <<2, 1>>
    /\ mgr["w1"].thisWindow.screenX = 1
    /\ mgr["w1"].meta = Obj(<<"a">>)
    /\ session["w1"].id = 2 /\ session["w2"].id = 1

(***************************************************************************)
(* C20.  Handling a storage notification calls the active-window-changed   *)
(* listeners exactly once, with the activeWindow read, if the id of the    *)
(* mirror's activeWindow differs from the id of the one read (null being   *)
(* no id), and does not call them if the two ids are equal.                *)
(***************************************************************************)
\* The activeWindow that the last storage handler read: no step of Spec
\* changes the registry without being the last handler.
ReadActive == IF store.kind = "json" THEN store.activeWindow ELSE NoWindow

\* The active-window-changed calls that the last handler made.
ActiveCalls == SelectSeq(last.log, LAMBDA e : e.cat = "activeWindowChange")

\* The claim as stated, for an instance with one active-window-changed
\* listener.  It fails in the code: after the comparison of the ids,
\* setActiveWindow(data.activeWindow) compares references and calls the
\* listeners again.
C20_ActiveChangedOnceIffIdsDiffer ==
    (last.op = "storage" /\ ~last.thrown /\ Len(last.before.listeners["activeWindowChange"]) = 1) =>
        /\ Len(ActiveCalls) = IF last.before.activeWindow.id # ReadActive.id THEN 1 ELSE 0
        /\ \A i \in DOMAIN ActiveCalls : ActiveCalls[i].window = ReadActive

(***************************************************************************)
(* C21.  Handling one storage notification calls each state-changed        *)
(* listener exactly once, as the last call of that handling, with a state  *)
(* whose activeWindow, windows and meta are all those of the registry      *)
(* just read.                                                              *)
(***************************************************************************)
\* What the last storage handler read (src/index.ts:606-609): no step of
\* Spec changes the registry without being the last handler.
ReadData ==
    IF store.kind = "json"
    THEN [activeWindow |-> store.activeWindow, windows |-> store.windows,
          meta |-> store.meta]
    ELSE [activeWindow |-> NoWindow, windows |-> <<>>, meta |-> last.before.meta]

\* The positions of the state-changed calls in the log of the last handler.
StateCalls == {i \in DOMAIN last.log : last.log[i].cat = "state"}

\* The claim as stated, for an instance with one state-changed listener.
\* It fails in the code: setActiveWindow(data.activeWindow) emits a state
\* change before this.windows and this.meta are assigned, and
\* handleStorageEvent emits another one after.
C21_StateChangedOnceWithSnapshot ==
    (/\ last.op = "storage" /\ ~last.thrown
     /\ Len(last.before.listeners["state"]) = 1) =>
        /\ StateCalls = {Len(last.log)}
        /\ \A i \in StateCalls :
              /\ last.log[i].state.activeWindow = ReadData.activeWindow
              /\ last.log[i].state.windows = ReadData.windows
              /\ last.log[i].state.meta = ReadData.meta

(***************************************************************************)
(* C22.  Handling a storage notification calls the new-window listeners    *)
(* exactly once for each window of the registry read whose id the previous *)
(* mirror does not hold, with that window, and for no other window.        *)
(***************************************************************************)
\* The windows that the last handler called the listeners of a category
\* with, in the order of the calls.
WindowsTold(cat) ==
    LET calls == SelectSeq(last.log, LAMBDA e : e.cat = cat)
    IN  [i \in DOMAIN calls |-> calls[i].window]

\* The last handler was handleStorageEvent, it ended, and the instance had
\* one listener of the category.
Reconciled(cat) ==
    /\ last.op = "storage" /\ ~last.thrown
    /\ Len(last.before.listeners[cat]) = 1

\* The new-window calls are the windows read that are new to the mirror, in
\* the order of the list read.
C22_NewWindowOncePerNewId ==
    Reconciled("newWindow") =>
        WindowsTold("newWindow") =
            SelectSeq(ReadData.windows,
                      LAMBDA w : ~HasId(last.before.windows, w.id))

\* A handling that found one new window next to one it knew.
C22_Witness ==
    /\ Reconciled("newWindow")
    /\ Len(WindowsTold("newWindow")) = 1
    /\ Len(ReadData.windows) = 2
    /\ Len(last.before.windows) = 1
    /\ HasId(ReadData.windows, last.before.windows[1].id)

(***************************************************************************)
(* C23.  Handling a storage notification calls the removed-window          *)
(* listeners exactly once for each window of the previous mirror whose id  *)
(* the registry read does not hold, with the mirror's record, and for no   *)
(* other window.                                                           *)
(***************************************************************************)
\* The removed-window calls are the records of the mirror that the list
\* read does not hold, in the order of the mirror.
C23_RemovedWindowOncePerGoneId ==
    Reconciled("removeWindow") =>
        WindowsTold("removeWindow") =
            SelectSeq(last.before.windows,
                      LAMBDA w : ~HasId(ReadData.windows, w.id))

\* A handling that found one window of the mirror gone and one still there.
C23_Witness ==
    /\ Reconciled("removeWindow")
    /\ Len(WindowsTold("removeWindow")) = 1
    /\ Len(last.before.windows) = 2
    /\ Len(ReadData.windows) = 1
    /\ HasId(last.before.windows, ReadData.windows[1].id)

(***************************************************************************)
(* C24.  Handling a storage notification calls the updated-window          *)
(* listeners, with the new record, for exactly the windows that the        *)
(* previous mirror and the registry read both hold and whose record        *)
(* differs; an unchanged record gives no call.                             *)
(***************************************************************************)
\* The record of the mirror and the record read differ as JSON texts.
RecordDiffers(prev, w) == StringifyWindow(prev) # StringifyWindow(w)

\* The updated-window calls are the records read whose id the mirror holds
\* with another value, in the order of the list read.
C24_UpdatedWindowIffRecordDiffers ==
    Reconciled("windowUpdate") =>
        WindowsTold("windowUpdate") =
            SelectSeq(ReadData.windows,
                      LAMBDA w : /\ HasId(last.before.windows, w.id)
                                 /\ RecordDiffers(Find(last.before.windows, w.id), w))

\* A handling that found the record of one window changed in a scroll
\* offset alone and the record of another one unchanged.
C24_Witness ==
    /\ Reconciled("windowUpdate")
    /\ Len(WindowsTold("windowUpdate")) = 1
    /\ Len(ReadData.windows) = 2 /\ IdsOf(last.before.windows) = IdsOf(ReadData.windows)
    /\ \E w \in {WindowsTold("windowUpdate")[1]} :
          /\ w.scrollY # Find(last.before.windows, w.id).scrollY
          /\ w.screenX = Find(last.before.windows, w.id).screenX

(***************************************************************************)
(* C25.  Handling a storage notification calls the meta-changed listeners, *)
(* with the meta read, if and only if the meta of the previous mirror      *)
(* differs structurally from the meta read.                                *)
(***************************************************************************)
\* The metas that the last handler called the meta-changed listeners with.
MetasTold ==
    LET calls == SelectSeq(last.log, LAMBDA e : e.cat = "meta")
    IN  [i \in DOMAIN calls |-> calls[i].meta]

\* The claim as stated.  It fails in the code, which compares the JSON
\* texts of the two metas: two metas with the same keys and values in
\* another key order are different texts.
C25_MetaChangedIffStructurallyDifferent ==
    Reconciled("meta") =>
        /\ (MetasTold # <<>>) <=> ~DeepEqual(last.before.meta, ReadData.meta)
        /\ \A i \in DOMAIN MetasTold : MetasTold[i] = ReadData.meta

(***************************************************************************)
(* C26.  Every write of the registry replaces it with the writer's mirror: *)
(* right after a context wrote (at construction, on focus, on a geometry   *)
(* change, in updateMeta, on unload with a list that is not empty) the     *)
(* registry is exactly that context's activeWindow, windows and meta, and  *)
(* what other contexts wrote and the writer did not observe is gone.       *)
(***************************************************************************)
\* The last handler called setItem.
SetItemCalled == \E i \in DOMAIN last.log : last.log[i].cat = "setItem"

\* The mirror of the context of the last handler, as JSON.
MirrorItem ==
    StringifyState(mgr[last.ctx].activeWindow, mgr[last.ctx].windows, mgr[last.ctx].meta)

C26_WriteReplacesWithMirror ==
    (SetItemCalled /\ HasPage(last.ctx)) => store = MirrorItem

\* w2 wrote on a geometry change while a storage notification was queued
\* for it: the record of w1, which is live, is no longer in the registry.
C26_Witness ==
    /\ SetItemCalled /\ last.op = "rect" /\ last.ctx = "w2"
    /\ last.wrote /\ pending["w2"] > 0
    /\ Live("w1")
    /\ ~HasId(store.windows, mgr["w1"].thisWindow.id)
    /\ store = MirrorItem

(***************************************************************************)
(* C27.  Right after the construction of a manager completes in a context, *)
(* the id of that context is in its mirror's windows and in the windows of *)
(* the persisted registry, whether or not a registry existed or listed the *)
(* id before.                                                              *)
(***************************************************************************)
\* The last handler was a constructor that returned, in a context whose
\* page is still there.
Constructed(c) ==
    last.op = "construct" /\ last.ctx = c /\ ~last.thrown /\ HasPage(c)

C27_ConstructedIsListed ==
    \A c \in Ctx :
        Constructed(c) =>
            /\ HasId(mgr[c].windows, mgr[c].thisWindow.id)
            /\ store.kind = "json"
            /\ HasId(store.windows, mgr[c].thisWindow.id)

\* w2 was constructed again after a reload and found its id in the
\* registry, which another context had written back: it wrote nothing.
C27_Witness ==
    /\ Constructed("w2") /\ ~SetItemCalled
    /\ Len(store.windows) = 2
    /\ HasId(store.windows, mgr["w2"].thisWindow.id)
    /\ HasId(mgr["w2"].windows, mgr["w2"].thisWindow.id)

(***************************************************************************)
(* C28.  The activeWindow record of the registry is stale only until the   *)
(* next write of the active context: right after any write made by the     *)
(* context whose id the persisted activeWindow has, the persisted          *)
(* activeWindow is that context's current thisWindow record.               *)
(***************************************************************************)
\* The claim as stated.  It fails in the code: handleWindowRectChange
\* replaces this.thisWindow by a new object and leaves this.activeWindow,
\* the old one, to be persisted.
C28_ActiveRecordFreshAfterOwnWrite ==
    (/\ SetItemCalled /\ HasPage(last.ctx)
     /\ store.kind = "json"
     /\ store.activeWindow.id = mgr[last.ctx].thisWindow.id) =>
        store.activeWindow = StringifyWindow(mgr[last.ctx].thisWindow)

(***************************************************************************)
(* C29.  If a listener throws while a storage notification is handled,     *)
(* the exception leaves the handler, no listener is called after it in     *)
(* that handling, and the mirror keeps its previous activeWindow, windows  *)
(* and meta.                                                               *)
(***************************************************************************)
\* The last handler was handleStorageEvent and a listener's exception ended
\* it.
ThrewInStorage == last.op = "storage" /\ last.thrown /\ HasPage(last.ctx)

\* The last call of the last handler went to the listener that throws, and
\* no other call did.
ThrowEndsCalls ==
    /\ last.log # <<>>
    /\ \A i \in DOMAIN last.log :
          last.log[i].listener \in Throwing <=> i = Len(last.log)

\* The category in which the exception was raised.
ThrownIn == last.log[Len(last.log)].cat

\* The mirror holds what it held before the handler, in the three fields.
MirrorKept(fields) ==
    \A f \in fields : mgr[last.ctx][f] = last.before[f]

\* The claim as stated.  Its first two parts hold; the third fails when
\* the exception is raised after this.activeWindow, or the whole mirror,
\* has been assigned.
C29_ThrowKeepsMirror ==
    ThrewInStorage =>
        ThrowEndsCalls /\ MirrorKept({"activeWindow", "windows", "meta"})

\* C29, amended: the exception leaves the handler and no listener is called
\* after it.  The mirror keeps its three fields when a new-window,
\* removed-window, updated-window or meta-changed listener throws, or an
\* active-window-changed listener called for differing ids.  It has the
\* activeWindow read and the previous windows and meta when the exception
\* is raised in the dispatches of setActiveWindow, and the whole snapshot
\* read when it is raised in the last state-changed dispatch.
C29_ThrowLeavesMirrorAsAssigned ==
    ThrewInStorage =>
        /\ ThrowEndsCalls
        /\ ThrownIn \in {"newWindow", "removeWindow", "windowUpdate", "meta"} =>
               MirrorKept({"activeWindow", "windows", "meta"})
        /\ ThrownIn = "activeWindowChange" =>
               /\ MirrorKept({"windows", "meta"})
               /\ mgr[last.ctx].activeWindow =
                      IF last.before.activeWindow.id # ReadData.activeWindow.id
                      THEN last.before.activeWindow ELSE ReadData.activeWindow
        /\ ThrownIn = "state" =>
               /\ mgr[last.ctx].activeWindow = ReadData.activeWindow
               /\ IF ReadData.activeWindow # NoWindow \/ last.before.activeWindow # NoWindow
                  THEN MirrorKept({"windows", "meta"})
                  ELSE /\ mgr[last.ctx].windows = ReadData.windows
                       /\ mgr[last.ctx].meta = ReadData.meta

\* A state-changed listener threw in the dispatch of setActiveWindow: the
\* mirror has the activeWindow read, and windows that are not those read.
C29_Witness ==
    /\ ThrewInStorage /\ ThrowEndsCalls /\ ThrownIn = "state"
    /\ mgr[last.ctx].activeWindow = ReadData.activeWindow
    /\ mgr[last.ctx].activeWindow # last.before.activeWindow
    /\ mgr[last.ctx].windows = last.before.windows
    /\ mgr[last.ctx].windows # ReadData.windows

(***************************************************************************)
(* C30.  Convergence at quiescence: once every queued storage notification *)
(* has been handled and no context does anything more, the mirror of every *)
(* initialized, not unloaded context has the windows, the meta and the     *)
(* activeWindow id of the persisted registry, or is the default empty      *)
(* state if the registry was removed.                                      *)
(***************************************************************************)
\* No storage notification is queued for a context that handles them.
AllHandled == \A c \in Ctx : Live(c) => pending[c] = 0

\* The mirror of c agrees with the registry, or with the default that is
\* read when there is none (whose meta is the context's own).
AgreesWithRegistry(c) ==
    IF store.kind = "json"
    THEN /\ StringifyWindows(mgr[c].windows) = store.windows
         /\ StringifyMeta(mgr[c].meta) = store.meta
         /\ mgr[c].activeWindow.id = store.activeWindow.id
    ELSE /\ mgr[c].windows = <<>>
         /\ mgr[c].activeWindow = NoWindow

\* The claim as stated: any state without queued notifications is one the
\* system may stay in.  It fails in the code: a constructor that finds its
\* id in the registry makes its context the active window of its mirror
\* and writes nothing.
C30_ConvergedAtQuiescence ==
    AllHandled => \A c \in Ctx : Live(c) => AgreesWithRegistry(c)

(***************************************************************************)
(* C31.  A context that has completed initialization and has not unloaded  *)
(* stays listed in the windows of the persisted registry, in every         *)
(* reachable state, whatever the other contexts write.                     *)
(***************************************************************************)
\* The claim as stated.  It fails in the code: updateStorageData writes the
\* mirror of the writer over the registry, and the mirror of a context that
\* has not yet handled the storage event of another context's construction
\* does not list that context.
C31_LiveContextStaysListed ==
    \A c \in Ctx :
        Live(c) => store.kind = "json" /\ HasId(store.windows, mgr[c].thisWindow.id)

(***************************************************************************)
(* C32.  No ghost windows: once the unload handler of a context has run,   *)
(* the id of that context is not in the windows of the persisted registry  *)
(* again until the context is constructed again, also when a context that  *)
(* has not handled the notification of the removal writes the registry.    *)
(***************************************************************************)
\* The claim as stated, for a context whose page is unloading and for one
\* whose page went away by a reload (sessionStorage still holds its id).  It
\* fails in the code: the write of a context whose mirror still lists the
\* unloaded context puts its record back.
C32_NoGhostWindows ==
    \A c \in Ctx :
        store.kind = "json" =>
            /\ phase[c] = "unloaded" => ~HasId(store.windows, mgr[c].thisWindow.id)
            /\ (phase[c] = "none" /\ session[c] # NoWindow) =>
                    ~HasId(store.windows, session[c].id)

(***************************************************************************)
(* C33.  After the unload handler of a context has run, that context makes *)
(* no further write to the persisted registry, whatever events (focus,     *)
(* resize, storage notification, updateMeta call) it still gets.           *)
(***************************************************************************)
\* The claim as stated: a focus, geometry, storage or updateMeta handler
\* that runs in a context whose unload handler has run calls neither
\* setItem nor removeItem.  It fails in the code: handleBeforeUnload stops
\* the poll timer and detaches no event listener, and the handlers it
\* leaves attached do not test that the instance has unloaded.
C33_NoWriteAfterUnload ==
    [][(/\ phase[last'.ctx] = "unloaded"
        /\ last'.op \in {"focus", "rect", "storage", "updateMeta"}) =>
            \A i \in DOMAIN last'.log : last'.log[i].cat \notin {"setItem", "removeItem"}]_vars

(***************************************************************************)
(* C34.  In every reachable state of a constructed context the geometry    *)
(* fields of thisWindow (screenX, screenY, screenTop, screenLeft, scrollX, *)
(* scrollY) equal those of lastWindowRect, the last rect the tracker knew, *)
(* also right after a reload that restores thisWindow from sessionStorage  *)
(* after the window was moved.                                             *)
(***************************************************************************)
\* The claim as stated.  It fails in the code: initCurrentWindow writes the
\* record to sessionStorage when it creates it and never again, so a reload
\* restores the geometry the window had when the id was made, while the
\* constructor takes lastWindowRect from the window as it is.
C34_ThisWindowHasLastRect ==
    \A c \in Ctx :
        HasPage(c) =>
            \A f \in RectFields : mgr[c].thisWindow[f] = mgr[c].lastWindowRect[f]

(***************************************************************************)
(* C35.  Referential integrity of the active window: in every reachable    *)
(* state in which the activeWindow of the persisted registry is not null,  *)
(* its id is the id of a record in the windows of the persisted registry.  *)
(***************************************************************************)
\* The claim as stated.  It fails in the code: updateStorageData writes
\* this.activeWindow and this.windows as they are, and handleFocus makes
\* this.thisWindow active without looking for it in this.windows.
C35_ActiveWindowIsListed ==
    (store.kind = "json" /\ store.activeWindow # NoWindow) =>
        HasId(store.windows, store.activeWindow.id)

====
